---- MODULE Spec2Model ----
(***************************************************************************)
(* Password generator (generatePassword), strength scorer                  *)
(* (calculatePasswordStrength), the PasswordGenerator component's          *)
(* generateNewPassword handler and the Firestore logger                    *)
(* (logPasswordGeneration).                                                *)
(*                                                                         *)
(* A JavaScript string is modelled as a sequence of one-character strings. *)
(***************************************************************************)
EXTENDS Integers, Sequences, FiniteSets, TLC

(***************************************************************************)
(* Bounds of the model.                                                    *)
(***************************************************************************)
\* Largest requested password length that is explored.
MaxLength == 4
\* Scored passwords are at most MaxHeadChunks chunks followed by a filler of
\* at most MaxFill characters.
MaxHeadChunks == 2
MaxFill == 20
\* Calls of generateNewPassword (the one on mount included) in one run.
MaxGenerations == 2
\* Changes of length, options and keyword in one run.
MaxEdits == 2
\* The slider is moved within SliderMin .. SliderMin + MaxSliderOffset, besides
\* its initial position.
MaxSliderOffset == 1
\* Math.random() is explored at the values 0/RandomSteps .. (RandomSteps-1)/RandomSteps.
RandomSteps == 2

VARIABLES
    gpc,                \* generatePassword: "idle", "call", "returned" or "thrown"
    args,               \* the argument object of generatePassword
    result              \* the string generatePassword returned

genVars == <<gpc, args, result>>

VARIABLES
    spc,                \* calculatePasswordStrength: "idle", "call" or "returned"
    sargs,              \* its arguments (password, options, keyword)
    report              \* the object it returned

scoreVars == <<spc, sargs, report>>

VARIABLES
    password,           \* PasswordGenerator state: the displayed password
    length,             \* state: the requested length
    options,            \* state: useLower, useUpper, useNumber, useSymbol
    keyword,            \* state: the keyword input
    strength,           \* state: the strength report, or Null
    isGenerating,       \* state: a generateNewPassword call is in progress
    hpc,                \* generateNewPassword: "unmounted", "idle" or "awaitLog"
    newPassword,        \* generateNewPassword: its constant `newPassword`
    metadata,           \* the object passed to logPasswordGeneration, or Null
    handlerPromise,     \* the promise of the last generateNewPassword call
    consoleErrors,      \* the messages written with console.error
    passwordLogs,       \* the documents of the Firestore collection passwordLogs
    currentUser,        \* auth.currentUser: a uid, or NoUser
    generations,        \* number of generateNewPassword calls so far
    edits               \* number of changes of length, options and keyword so far

uiVars == <<password, length, options, keyword, strength, isGenerating, hpc,
            newPassword, metadata, handlerPromise, consoleErrors, passwordLogs,
            currentUser, generations, edits>>

vars == <<genVars, scoreVars, uiVars>>

(***************************************************************************)
(* Strings                                                                 *)
(***************************************************************************)
Range(s) == {s[i] : i \in 1..Len(s)}

BOOL == {FALSE, TRUE}

\* CHARACTER_SETS
CHARACTER_SETS ==
    [lowercase |-> <<"a", "b", "c", "d", "e", "f", "g", "h", "i", "j", "k", "l", "m",
                     "n", "o", "p", "q", "r", "s", "t", "u", "v", "w", "x", "y", "z">>,
     uppercase |-> <<"A", "B", "C", "D", "E", "F", "G", "H", "I", "J", "K", "L", "M",
                     "N", "O", "P", "Q", "R", "S", "T", "U", "V", "W", "X", "Y", "Z">>,
     numbers   |-> <<"0", "1", "2", "3", "4", "5", "6", "7", "8", "9">>,
     symbols   |-> <<"!", "@", "#", "$", "%", "^", "&", "*", "(", ")", "_", "+", "-",
                     "=", "[", "]", "{", "}", "|", ";", ":", ",", ".", "<", ">", "?">>]

\* White space removed by String.prototype.trim (the characters the model uses).
WhiteSpace == {" ", "\t", "\n", "\r"}

\* String.prototype.trim
RECURSIVE TrimStart(_)
TrimStart(s) ==
    IF s # <<>> /\ Head(s) \in WhiteSpace THEN TrimStart(Tail(s)) ELSE s

RECURSIVE TrimEnd(_)
TrimEnd(s) ==
    IF s # <<>> /\ s[Len(s)] \in WhiteSpace
    THEN TrimEnd(SubSeq(s, 1, Len(s) - 1))
    ELSE s

Trim(s) == TrimEnd(TrimStart(s))

\* The characters of each set.
ClassChars == [n \in DOMAIN CHARACTER_SETS |-> Range(CHARACTER_SETS[n])]

\* The regular expression class [a-zA-Z0-9]
AlnumChars == ClassChars.lowercase \cup ClassChars.uppercase \cup ClassChars.numbers

MatchesAlnum(c) == c \in AlnumChars

\* s.replace(/[^a-zA-Z0-9]/g, '')
StripNonAlnum(s) == SelectSeq(s, MatchesAlnum)

\* s.substring(0, n) for 0 <= n
Substring0(s, n) == SubSeq(s, 1, IF n < Len(s) THEN n ELSE Len(s))

(***************************************************************************)
(* generatePassword                                                        *)
(***************************************************************************)
\* charset, a mistake: useSymbol is not looked at.
CharsetWithoutSymbols(a) ==
    (IF a.useLower THEN CHARACTER_SETS.lowercase ELSE <<>>)
    \o (IF a.useUpper THEN CHARACTER_SETS.uppercase ELSE <<>>)
    \o (IF a.useNumber THEN CHARACTER_SETS.numbers ELSE <<>>)

\* let charset = '' ... if (useX) charset += CHARACTER_SETS.x
Charset(a) ==
    (IF a.useLower THEN CHARACTER_SETS.lowercase ELSE <<>>)
    \o (IF a.useUpper THEN CHARACTER_SETS.uppercase ELSE <<>>)
    \o (IF a.useNumber THEN CHARACTER_SETS.numbers ELSE <<>>)
    \o (IF a.useSymbol THEN CHARACTER_SETS.symbols ELSE <<>>)

\* selectedSets, a mistake: the lowercase set is pushed whatever useLower is.
SelectedSetsAlwaysLower(a) ==
    <<CHARACTER_SETS.lowercase>>
    \o (IF a.useUpper THEN <<CHARACTER_SETS.uppercase>> ELSE <<>>)
    \o (IF a.useNumber THEN <<CHARACTER_SETS.numbers>> ELSE <<>>)
    \o (IF a.useSymbol THEN <<CHARACTER_SETS.symbols>> ELSE <<>>)

\* const selectedSets = [] ... if (useX) selectedSets.push(CHARACTER_SETS.x)
SelectedSets(a) ==
    (IF a.useLower THEN <<CHARACTER_SETS.lowercase>> ELSE <<>>)
    \o (IF a.useUpper THEN <<CHARACTER_SETS.uppercase>> ELSE <<>>)
    \o (IF a.useNumber THEN <<CHARACTER_SETS.numbers>> ELSE <<>>)
    \o (IF a.useSymbol THEN <<CHARACTER_SETS.symbols>> ELSE <<>>)

\* The keyword processing, a mistake: the keyword is not cut.
ProcessKeywordUncut(kw, len) ==
    IF kw # <<>> /\ Trim(kw) # <<>> THEN StripNonAlnum(Trim(kw)) ELSE <<>>

\* The keyword processing of generatePassword.
ProcessKeyword(kw, len) ==
    IF kw # <<>> /\ Trim(kw) # <<>>
    THEN LET sanitized == StripNonAlnum(Trim(kw))
             maxKeywordLength == len \div 3
         IN  IF Len(sanitized) > maxKeywordLength
             THEN Substring0(sanitized, maxKeywordLength)
             ELSE sanitized
    ELSE <<>>

\* set[Math.floor(Math.random() * set.length)], Math.random() = k / RandomSteps
RandomChar(set, k) == set[((k * Len(set)) \div RandomSteps) + 1]

\* The values of Math.random(), as numerators over RandomSteps.
RandomDraws == 0..(RandomSteps - 1)

\* The seeding, a mistake: only the first selected set gives a character.
SeedOutcomesFirstOnly(sets, draws) ==
    IF sets = <<>> THEN {<<>>} ELSE {<<RandomChar(Head(sets), k)>> : k \in draws}

\* selectedSets.forEach(set => { password += set[random] }), password = ''
RECURSIVE SeedOutcomes(_, _)
SeedOutcomes(sets, draws) ==
    IF sets = <<>>
    THEN {<<>>}
    ELSE {<<RandomChar(Head(sets), k)>> \o t :
             k \in draws, t \in SeedOutcomes(Tail(sets), draws)}

\* The padding, a mistake: the loop runs while i <= length.
RECURSIVE PadOutcomesOneMore(_, _, _, _)
PadOutcomesOneMore(pw, len, charset, draws) ==
    IF Len(pw) <= len
    THEN UNION {PadOutcomesOneMore(Append(pw, RandomChar(charset, k)),
                                   len, charset, draws) : k \in draws}
    ELSE {pw}

\* for (let i = password.length; i < length; i++) password += charset[random]
RECURSIVE PadOutcomes(_, _, _, _)
PadOutcomes(pw, len, charset, draws) ==
    IF Len(pw) < len
    THEN UNION {PadOutcomes(Append(pw, RandomChar(charset, k)),
                            len, charset, draws) : k \in draws}
    ELSE {pw}

RemoveAt(s, i) == SubSeq(s, 1, i - 1) \o SubSeq(s, i + 1, Len(s))

\* password.split('').sort(() => Math.random() - 0.5).join(''): the comparator
\* is inconsistent, so the order is any rearrangement of the characters.
RECURSIVE ShuffleOutcomes(_)
ShuffleOutcomes(s) ==
    IF s = <<>>
    THEN {<<>>}
    ELSE UNION { {<<s[i]>> \o t : t \in ShuffleOutcomes(RemoveAt(s, i))} :
                 i \in {j \in 1..Len(s) : \A h \in 1..(j - 1) : s[h] # s[j]} }

\* throw new Error('At least one character type must be selected')
Thrown == [threw |-> TRUE, value |-> <<>>]

Returned(s) == [threw |-> FALSE, value |-> s]

\* generatePassword up to the shuffle: every value of the local `password`
\* for the argument object a and the values `draws` of Math.random().
Unshuffled(a, draws) ==
    LET pk == ProcessKeyword(a.keyword, a.length)
        withKeyword(seeded) == IF pk # <<>> THEN seeded \o pk ELSE seeded
    IN  UNION {PadOutcomes(withKeyword(seeded), a.length, Charset(a), draws) :
                  seeded \in SeedOutcomes(SelectedSets(a), draws)}

\* generatePassword: every outcome for the argument object a and the values
\* `draws` of Math.random().
GeneratePasswordOutcomes(a, draws) ==
    IF Charset(a) = <<>>
    THEN {Thrown}
    ELSE {Returned(s) : s \in UNION {ShuffleOutcomes(u) : u \in Unshuffled(a, draws)}}

\* A call of generatePassword with every value of Math.random() and every
\* order of the final sort.
GeneratePassword ==
    /\ gpc = "call"
    /\ \E out \in GeneratePasswordOutcomes(args, RandomDraws) :
          /\ gpc' = IF out.threw THEN "thrown" ELSE "returned"
          /\ result' = out.value
    /\ UNCHANGED <<args, scoreVars, uiVars>>

(***************************************************************************)
(* calculatePasswordStrength                                               *)
(***************************************************************************)
\* String.prototype.toLowerCase on one character
ToLowerChar(c) ==
    IF c \in ClassChars.uppercase
    THEN CHARACTER_SETS.lowercase[CHOOSE i \in 1..26 : CHARACTER_SETS.uppercase[i] = c]
    ELSE c

\* String.prototype.toLowerCase
ToLowerCase(s) == [i \in 1..Len(s) |-> ToLowerChar(s[i])]

\* The canonical form of a character under the regular expression flag i.
Canonicalize(c) ==
    IF c \in ClassChars.lowercase
    THEN CHARACTER_SETS.uppercase[CHOOSE i \in 1..26 : CHARACTER_SETS.lowercase[i] = c]
    ELSE c

\* String.prototype.includes
Includes(s, t) ==
    \E i \in 0..(Len(s) - Len(t)) : SubSeq(s, i + 1, i + Len(t)) = t

\* /[!@#$%^&*()_+\-=\[\]{}|;:,.<>?]/
SymbolPattern ==
    {"!", "@", "#", "$", "%", "^", "&", "*", "(", ")", "_", "+", "-", "=", "[", "]",
     "{", "}", "|", ";", ":", ",", ".", "<", ">", "?"}

\* Characters the regular expression atom . does not match.
LineTerminators == {"\n", "\r"}

\* /(.)\1{2,}/.test(s)
TestRepeats(s) ==
    \E i \in 1..(Len(s) - 2) :
        /\ s[i] \notin LineTerminators
        /\ s[i + 1] = s[i]
        /\ s[i + 2] = s[i]

\* The alternatives of the sequence pattern.
SequencePattern ==
    { <<"a", "b", "c">>, <<"b", "c", "d">>, <<"c", "d", "e">>, <<"d", "e", "f">>,
      <<"e", "f", "g">>, <<"f", "g", "h">>, <<"g", "h", "i">>, <<"h", "i", "j">>,
      <<"i", "j", "k">>, <<"j", "k", "l">>, <<"k", "l", "m">>, <<"l", "m", "n">>,
      <<"m", "n", "o">>, <<"n", "o", "p">>, <<"o", "p", "q">>, <<"p", "q", "r">>,
      <<"q", "r", "s">>, <<"r", "s", "t">>, <<"s", "t", "u">>, <<"t", "u", "v">>,
      <<"u", "v", "w">>, <<"v", "w", "x">>, <<"w", "x", "y">>, <<"x", "y", "z">>,
      <<"0", "1", "2">>, <<"1", "2", "3">>, <<"2", "3", "4">>, <<"3", "4", "5">>,
      <<"4", "5", "6">>, <<"5", "6", "7">>, <<"6", "7", "8">>, <<"7", "8", "9">> }

CanonicalSequencePattern ==
    {[i \in 1..3 |-> Canonicalize(w[i])] : w \in SequencePattern}

\* /(abc|bcd|...|789)/i.test(s)
TestSequences(s) ==
    \E i \in 1..(Len(s) - 2) :
        [j \in 1..3 |-> Canonicalize(s[i + j - 1])] \in CanonicalSequencePattern

\* const analysis = { ... }. hasKeyword is the truth value of
\* keyword && password.toLowerCase().includes(keyword.toLowerCase()).
Analysis(pw, kw) ==
    [length        |-> Len(pw),
     hasLower      |-> \E i \in 1..Len(pw) : pw[i] \in ClassChars.lowercase,
     hasUpper      |-> \E i \in 1..Len(pw) : pw[i] \in ClassChars.uppercase,
     hasNumber     |-> \E i \in 1..Len(pw) : pw[i] \in ClassChars.numbers,
     hasSymbol     |-> \E i \in 1..Len(pw) : pw[i] \in SymbolPattern,
     hasRepeats    |-> TestRepeats(pw),
     hasSequences  |-> TestSequences(pw),
     hasKeyword    |-> /\ kw # <<>>
                       /\ Includes(ToLowerCase(pw), ToLowerCase(kw)),
     keywordLength |-> IF kw # <<>> THEN Len(kw) ELSE 0]

Min(a, b) == IF a < b THEN a ELSE b

Max(a, b) == IF a > b THEN a ELSE b

\* The score, a mistake: the second length bonus is given from 11 characters.
RawScoreEarlyBonus(analysis) ==
    (IF analysis.length >= 8 THEN 5 ELSE 0)
    + (IF analysis.length >= 11 THEN 5 ELSE 0)
    + (IF analysis.length >= 16 THEN 5 ELSE 0)
    + (IF analysis.length >= 20 THEN 5 ELSE 0)
    + (IF analysis.hasLower THEN 2 ELSE 0)
    + (IF analysis.hasUpper THEN 2 ELSE 0)
    + (IF analysis.hasNumber THEN 2 ELSE 0)
    + (IF analysis.hasSymbol THEN 3 ELSE 0)
    + (IF analysis.hasKeyword THEN Min(3, analysis.keywordLength) ELSE 0)
    - (IF analysis.hasRepeats THEN 3 ELSE 0)
    - (IF analysis.hasSequences THEN 2 ELSE 0)
    - (IF analysis.length < 8 THEN 10 ELSE 0)

\* The score, a mistake: a symbol gives 13 points instead of 3.
RawScoreSymbolThirteen(analysis) ==
    (IF analysis.length >= 8 THEN 5 ELSE 0)
    + (IF analysis.length >= 12 THEN 5 ELSE 0)
    + (IF analysis.length >= 16 THEN 5 ELSE 0)
    + (IF analysis.length >= 20 THEN 5 ELSE 0)
    + (IF analysis.hasLower THEN 2 ELSE 0)
    + (IF analysis.hasUpper THEN 2 ELSE 0)
    + (IF analysis.hasNumber THEN 2 ELSE 0)
    + (IF analysis.hasSymbol THEN 13 ELSE 0)
    + (IF analysis.hasKeyword THEN Min(3, analysis.keywordLength) ELSE 0)
    - (IF analysis.hasRepeats THEN 3 ELSE 0)
    - (IF analysis.hasSequences THEN 2 ELSE 0)
    - (IF analysis.length < 8 THEN 10 ELSE 0)

\* The score before it is clamped.
RawScore(analysis) ==
    (IF analysis.length >= 8 THEN 5 ELSE 0)
    + (IF analysis.length >= 12 THEN 5 ELSE 0)
    + (IF analysis.length >= 16 THEN 5 ELSE 0)
    + (IF analysis.length >= 20 THEN 5 ELSE 0)
    + (IF analysis.hasLower THEN 2 ELSE 0)
    + (IF analysis.hasUpper THEN 2 ELSE 0)
    + (IF analysis.hasNumber THEN 2 ELSE 0)
    + (IF analysis.hasSymbol THEN 3 ELSE 0)
    + (IF analysis.hasKeyword THEN Min(3, analysis.keywordLength) ELSE 0)
    - (IF analysis.hasRepeats THEN 3 ELSE 0)
    - (IF analysis.hasSequences THEN 2 ELSE 0)
    - (IF analysis.length < 8 THEN 10 ELSE 0)

\* score = Math.max(0, Math.min(50, score))
ClampScore(score) == Max(0, Min(50, score))

\* The strength level, a mistake: the thresholds are compared with <=.
StrengthLevelInclusive(score) ==
    IF score <= 10 THEN [strength |-> "Very Weak", emoji |-> "U+1F534", color |-> "danger"]
    ELSE IF score <= 20 THEN [strength |-> "Weak", emoji |-> "U+1F7E0", color |-> "warning"]
    ELSE IF score <= 30 THEN [strength |-> "Fair", emoji |-> "U+1F7E1", color |-> "warning"]
    ELSE IF score <= 40 THEN [strength |-> "Good", emoji |-> "U+1F7E2", color |-> "success"]
    ELSE [strength |-> "Strong", emoji |-> "U+1F7E2", color |-> "success"]

\* The strength level of a score.
StrengthLevel(score) ==
    IF score < 10 THEN [strength |-> "Very Weak", emoji |-> "U+1F534", color |-> "danger"]
    ELSE IF score < 20 THEN [strength |-> "Weak", emoji |-> "U+1F7E0", color |-> "warning"]
    ELSE IF score < 30 THEN [strength |-> "Fair", emoji |-> "U+1F7E1", color |-> "warning"]
    ELSE IF score < 40 THEN [strength |-> "Good", emoji |-> "U+1F7E2", color |-> "success"]
    ELSE [strength |-> "Strong", emoji |-> "U+1F7E2", color |-> "success"]

\* calculatePasswordStrength(password, options, keyword)
calculatePasswordStrength(pw, opts, kw) ==
    LET analysis == Analysis(pw, kw)
        score == ClampScore(RawScore(analysis))
        level == StrengthLevel(score)
    IN  [score |-> score, strength |-> level.strength, emoji |-> level.emoji,
         color |-> level.color, analysis |-> analysis]

\* A call of calculatePasswordStrength.
CalculatePasswordStrength ==
    /\ spc = "call"
    /\ report' = calculatePasswordStrength(sargs.password, sargs.options, sargs.keyword)
    /\ spc' = "returned"
    /\ UNCHANGED <<sargs, genVars, uiVars>>

(***************************************************************************)
(* PasswordGenerator: state, generateNewPassword, logPasswordGeneration    *)
(***************************************************************************)
\* null
Null == [null |-> TRUE]

\* auth.currentUser when the anonymous sign-in failed
NoUser == "no user"

\* useState(16)
DefaultLength == 16

\* useState({ useLower: true, useUpper: true, useNumber: true, useSymbol: false })
DefaultOptions ==
    [useLower |-> TRUE, useUpper |-> TRUE, useNumber |-> TRUE, useSymbol |-> FALSE]

\* <input type="range" min="4" max="128">
SliderMin == 4

SliderMax == 128

\* The effect on [password, options, keyword]: the new strength state.
StrengthEffect(pw, opts, kw, old) ==
    IF pw # <<>> THEN calculatePasswordStrength(pw, opts, kw) ELSE old

\* The object generateNewPassword passes to logPasswordGeneration, a mistake:
\* the password is logged with the metadata.
MetadataWithPassword(newPw, uid, len, opts, kw) ==
    LET strengthData == calculatePasswordStrength(newPw, opts, kw)
    IN  [uid |-> uid, length |-> len, options |-> opts,
         strengthScore |-> strengthData.score, password |-> newPw]

\* The object generateNewPassword passes to logPasswordGeneration.
Metadata(newPw, uid, len, opts, kw) ==
    LET strengthData == calculatePasswordStrength(newPw, opts, kw)
    IN  [uid |-> uid, length |-> len, options |-> opts,
         strengthScore |-> strengthData.score]

\* The document logPasswordGeneration hands to addDoc.
LogDocument(m) ==
    [uid |-> m.uid, length |-> m.length, options |-> m.options,
     strengthScore |-> m.strengthScore, createdAt |-> "serverTimestamp"]

\* finally { setIsGenerating(false) }: the call is over.
HandlerFinally ==
    /\ isGenerating' = FALSE
    /\ hpc' = "idle"
    /\ metadata' = Null

\* The order the final sort leaves, sampled: unchanged or reversed.
SampledOrders(s) == {s, [i \in 1..Len(s) |-> s[Len(s) + 1 - i]]}

\* The outcomes of generatePassword explored in the component: Math.random()
\* returns one value throughout the call, the sort keeps or reverses the order.
SampledOutcomes(a) ==
    IF Charset(a) = <<>>
    THEN {Thrown}
    ELSE {Returned(s) :
             s \in UNION {SampledOrders(u) :
                             u \in UNION {Unshuffled(a, {k}) : k \in RandomDraws}}}

\* generateNewPassword up to its await (or to its end when nothing is awaited).
HandlerBody ==
    /\ generations < MaxGenerations
    /\ generations' = generations + 1
    /\ \E out \in SampledOutcomes([length |-> length, useLower |-> options.useLower,
                                   useUpper |-> options.useUpper,
                                   useNumber |-> options.useNumber,
                                   useSymbol |-> options.useSymbol,
                                   keyword |-> keyword]) :
          IF out.threw
          THEN \* catch (error) { console.error(...) } finally { ... }
               /\ consoleErrors' = consoleErrors \cup {"Error generating password:"}
               /\ handlerPromise' = "fulfilled"
               /\ HandlerFinally
               /\ UNCHANGED <<password, strength, newPassword, passwordLogs>>
          ELSE /\ newPassword' = out.value
               /\ password' = out.value
               /\ strength' = StrengthEffect(out.value, options, keyword, strength)
               /\ IF currentUser # NoUser
                  THEN /\ metadata' =
                            Metadata(out.value, currentUser, length, options, keyword)
                       /\ isGenerating' = TRUE
                       /\ hpc' = "awaitLog"
                       /\ handlerPromise' = "pending"
                  ELSE /\ handlerPromise' = "fulfilled"
                       /\ HandlerFinally
               /\ UNCHANGED <<consoleErrors, passwordLogs>>
    /\ UNCHANGED <<length, options, keyword, currentUser, edits, genVars, scoreVars>>

\* useEffect(() => { generateNewPassword(); }, [])
Mount ==
    /\ hpc = "unmounted"
    /\ HandlerBody

\* onClick={generateNewPassword}, disabled while generating or without a class
ClickGenerate ==
    /\ hpc = "idle"
    /\ ~isGenerating
    /\ \E o \in DOMAIN options : options[o]
    /\ HandlerBody

\* addDoc resolved: logPasswordGeneration returns the id, the handler ends.
LogResolve ==
    /\ hpc = "awaitLog"
    /\ passwordLogs' = Append(passwordLogs, LogDocument(metadata))
    /\ handlerPromise' = "fulfilled"
    /\ HandlerFinally
    /\ UNCHANGED <<password, length, options, keyword, strength, newPassword,
                   consoleErrors, currentUser, generations, edits, genVars, scoreVars>>

\* addDoc rejected, a mistake: the handler has no catch, the error leaves it.
LogRejectUncaught ==
    /\ hpc = "awaitLog"
    /\ consoleErrors' = consoleErrors \cup {"Error logging password generation:"}
    /\ handlerPromise' = "rejected"
    /\ HandlerFinally
    /\ UNCHANGED <<password, length, options, keyword, strength, newPassword,
                   passwordLogs, currentUser, generations, edits, genVars, scoreVars>>

\* addDoc rejected: logPasswordGeneration logs and rethrows, the handler's
\* catch logs, finally ends the call.
LogReject ==
    /\ hpc = "awaitLog"
    /\ consoleErrors' = consoleErrors \cup {"Error logging password generation:",
                                            "Error generating password:"}
    /\ handlerPromise' = "fulfilled"
    /\ HandlerFinally
    /\ UNCHANGED <<password, length, options, keyword, strength, newPassword,
                   passwordLogs, currentUser, generations, edits, genVars, scoreVars>>

\* A change by the user is possible once mounted, also during the await.
CanEdit ==
    /\ hpc # "unmounted"
    /\ edits < MaxEdits
    /\ edits' = edits + 1

SliderPositions == SliderMin..Min(SliderMax, SliderMin + MaxSliderOffset)

\* onChange={(e) => setLength(parseInt(e.target.value))}
SetLength ==
    /\ CanEdit
    /\ \E l \in SliderPositions \ {length} : length' = l
    /\ UNCHANGED <<password, options, keyword, strength, isGenerating, hpc,
                   newPassword, metadata, handlerPromise, consoleErrors,
                   passwordLogs, currentUser, generations, genVars, scoreVars>>

\* Keywords typed into the input (maxLength 20).
TypedKeywords == { <<>>, <<"Q", "-", "7">> }

\* onChange={(e) => setKeyword(e.target.value)}
SetKeyword ==
    /\ CanEdit
    /\ \E k \in TypedKeywords \ {keyword} :
          /\ keyword' = k
          /\ strength' = StrengthEffect(password, options, k, strength)
    /\ UNCHANGED <<password, length, options, isGenerating, hpc, newPassword,
                   metadata, handlerPromise, consoleErrors, passwordLogs,
                   currentUser, generations, genVars, scoreVars>>

\* handleOptionChange(option)
HandleOptionChange ==
    /\ CanEdit
    /\ \E option \in DOMAIN options :
          /\ options' = [options EXCEPT ![option] = ~options[option]]
          /\ strength' = StrengthEffect(password, options', keyword, strength)
    /\ UNCHANGED <<password, length, keyword, isGenerating, hpc, newPassword,
                   metadata, handlerPromise, consoleErrors, passwordLogs,
                   currentUser, generations, genVars, scoreVars>>

\* The component before its first effect runs.
Constructed ==
    /\ password = <<>>
    /\ length = DefaultLength
    /\ options = DefaultOptions
    /\ keyword = <<>>
    /\ strength = Null
    /\ isGenerating = FALSE
    /\ hpc = "unmounted"
    /\ newPassword = <<>>
    /\ metadata = Null
    /\ handlerPromise = "none"
    /\ consoleErrors = {}
    /\ passwordLogs = <<>>
    /\ generations = 0
    /\ edits = 0

\* The component is not rendered.
NoComponent ==
    /\ Constructed
    /\ currentUser = NoUser

(***************************************************************************)
(* Spec: generatePassword applied to every request of the bounded input    *)
(* set.                                                                    *)
(***************************************************************************)
\* Raw keywords: empty, white space only, the example "ab!@12cd", symbols
\* only, padded with white space, a single letter.
Keywords ==
    { <<>>,
      <<" ">>,
      <<"a", "b", "!", "@", "1", "2", "c", "d">>,
      <<"!", "?">>,
      <<" ", "Q", "-", "7", " ">>,
      <<"x">> }

Requests ==
    [length : 1..MaxLength, useLower : BOOL, useUpper : BOOL, useNumber : BOOL,
     useSymbol : BOOL, keyword : Keywords]

\* No call of generatePassword.
GenIdle ==
    /\ gpc = "idle"
    /\ args = [length |-> 1, useLower |-> FALSE, useUpper |-> FALSE,
               useNumber |-> FALSE, useSymbol |-> FALSE, keyword |-> <<>>]
    /\ result = <<>>

\* No call of calculatePasswordStrength.
NoOptions ==
    [useLower |-> FALSE, useUpper |-> FALSE, useNumber |-> FALSE, useSymbol |-> FALSE]

ScoreIdle ==
    /\ spc = "idle"
    /\ sargs = [password |-> <<>>, options |-> NoOptions, keyword |-> <<>>]
    /\ report = calculatePasswordStrength(<<>>, NoOptions, <<>>)

Init ==
    /\ gpc = "call"
    /\ args \in Requests
    /\ result = <<>>
    /\ ScoreIdle
    /\ NoComponent

Next == GeneratePassword

Spec == Init /\ [][Next]_vars

(***************************************************************************)
(* SpecScorer: calculatePasswordStrength applied to every password of a    *)
(* bounded family: a head of at most MaxHeadChunks chunks followed by a    *)
(* filler of at most MaxFill characters.                                   *)
(***************************************************************************)
\* One character of no class, of each class, runs, sequences in both cases,
\* a run of line terminators.
Chunks ==
    { <<"~">>, <<"a">>, <<"Q">>, <<"7">>, <<"!">>,
      <<"a", "a", "a">>, <<"a", "b", "c">>, <<"X", "y", "Z">>, <<"6", "7", "8">>,
      <<"\n", "\n", "\n">> }

\* Cycles a filler repeats: all classes, lowercase, one digit, no class.
Fillers ==
    { <<"x", "Z", "5", "?">>, <<"x", "z">>, <<"1">>, <<" ", "~">> }

Fill(cycle, n) == [i \in 1..n |-> cycle[((i - 1) % Len(cycle)) + 1]]

RECURSIVE Heads(_)
Heads(n) ==
    IF n = 0
    THEN {<<>>}
    ELSE LET shorter == Heads(n - 1)
         IN  shorter \cup {h \o c : h \in shorter, c \in Chunks}

ScoredPasswords ==
    {h \o Fill(f, n) : h \in Heads(MaxHeadChunks), f \in Fillers, n \in 0..MaxFill}

\* Keywords: none, one letter, three characters in another case, four.
ScoredKeywords ==
    { <<>>, <<"x">>, <<"X", "z", "5">>, <<"A", "a", "A", "a">> }

ScoredOptions ==
    { NoOptions,
      [useLower |-> TRUE, useUpper |-> TRUE, useNumber |-> TRUE, useSymbol |-> FALSE] }

InitScorer ==
    /\ spc = "call"
    /\ sargs \in [password : ScoredPasswords, options : ScoredOptions,
                  keyword : ScoredKeywords]
    /\ report = calculatePasswordStrength(<<>>, NoOptions, <<>>)
    /\ GenIdle
    /\ NoComponent

NextScorer == CalculatePasswordStrength

SpecScorer == InitScorer /\ [][NextScorer]_vars

(***************************************************************************)
(* SpecUI: the mounted component, the user and Firestore.                  *)
(***************************************************************************)
InitUI ==
    /\ Constructed
    /\ currentUser \in {NoUser, "uid-1"}
    /\ GenIdle
    /\ ScoreIdle

NextUI ==
    \/ Mount
    \/ ClickGenerate
    \/ LogResolve
    \/ LogReject
    \/ SetLength
    \/ SetKeyword
    \/ HandleOptionChange

SpecUI == InitUI /\ [][NextUI]_vars

(***************************************************************************)
(* Properties of generatePassword, checked under Spec.                     *)
(***************************************************************************)
NoClassEnabled(a) == ~a.useLower /\ ~a.useUpper /\ ~a.useNumber /\ ~a.useSymbol

NumEnabled(a) ==
    (IF a.useLower THEN 1 ELSE 0) + (IF a.useUpper THEN 1 ELSE 0)
    + (IF a.useNumber THEN 1 ELSE 0) + (IF a.useSymbol THEN 1 ELSE 0)

\* The sets of the classes a request enables.
EnabledClasses(a) ==
    {n \in {"lowercase", "uppercase", "numbers", "symbols"} :
        \/ n = "lowercase" /\ a.useLower
        \/ n = "uppercase" /\ a.useUpper
        \/ n = "numbers" /\ a.useNumber
        \/ n = "symbols" /\ a.useSymbol}

Count(s, c) == Cardinality({i \in 1..Len(s) : s[i] = c})

\* The processed keyword as the specification words it: every character
\* outside [a-zA-Z0-9] removed, then the first floor(length/3) characters.
LettersAndDigits ==
    {CHARACTER_SETS.lowercase[i] : i \in 1..26}
    \cup {CHARACTER_SETS.uppercase[i] : i \in 1..26}
    \cup {CHARACTER_SETS.numbers[i] : i \in 1..10}

IsLetterOrDigit(c) == c \in LettersAndDigits

ExpectedKeyword(kw, len) ==
    LET kept == SelectSeq(kw, IsLetterOrDigit)
        cut == len \div 3
    IN  [i \in 1..(IF Len(kept) < cut THEN Len(kept) ELSE cut) |-> kept[i]]

\* C1: with all four classes disabled generatePassword throws and returns no
\* password, whatever the length and the keyword; with at least one class
\* enabled it never throws.
C1_InvalidConfiguration ==
    /\ (gpc # "call" /\ NoClassEnabled(args)) => (gpc = "thrown" /\ result = <<>>)
    /\ ~NoClassEnabled(args) => gpc # "thrown"

C1_Witness ==
    /\ gpc = "thrown"
    /\ NoClassEnabled(args)
    /\ args.keyword = <<"x">>
    /\ args.length = MaxLength

\* C2: the returned password holds at least one character of every enabled
\* class, also when length is smaller than the number of enabled classes.
C2_EveryEnabledClassPresent ==
    gpc = "returned" =>
        \A n \in EnabledClasses(args) :
            \E i \in 1..Len(result) : result[i] \in ClassChars[n]

C2_Witness ==
    /\ gpc = "returned"
    /\ NumEnabled(args) = 4
    /\ args.length = 1
    /\ \A n \in EnabledClasses(args) :
          \E i \in 1..Len(result) : result[i] \in ClassChars[n]

\* C3 as claimed: the returned password has at least `length` characters and
\* exactly `length` whenever the processed keyword is empty.
C3_ExactLengthWithoutKeyword ==
    gpc = "returned" =>
        /\ Len(result) >= args.length
        /\ ExpectedKeyword(args.keyword, args.length) = <<>> =>
              Len(result) = args.length

\* C3 amended: the returned password has at least `length` characters, and
\* exactly `length` whenever the processed keyword is empty and `length` is
\* at least the number of enabled classes.
C3_LengthAtLeastRequested ==
    gpc = "returned" =>
        /\ Len(result) >= args.length
        /\ (/\ ExpectedKeyword(args.keyword, args.length) = <<>>
            /\ NumEnabled(args) <= args.length) =>
              Len(result) = args.length

C3_Witness ==
    /\ gpc = "returned"
    /\ args.keyword = <<" ">>
    /\ NumEnabled(args) = 2
    /\ args.length = 4
    /\ Len(result) = 4

\* C4: every character of the returned password belongs to the set of an
\* enabled class or to the processed keyword.
C4_OnlyEnabledOrKeywordCharacters ==
    gpc = "returned" =>
        \A i \in 1..Len(result) :
            \/ \E n \in EnabledClasses(args) : result[i] \in ClassChars[n]
            \/ result[i] \in Range(ExpectedKeyword(args.keyword, args.length))

C4_Witness ==
    /\ gpc = "returned"
    /\ EnabledClasses(args) = {"symbols"}
    /\ args.keyword = <<"x">>
    /\ args.length = 4
    /\ \E i \in 1..Len(result) : result[i] = "x"
    /\ \E i \in 1..Len(result) : result[i] \in ClassChars.symbols

\* C5: the keyword part is the raw keyword without the characters outside
\* [a-zA-Z0-9], cut to floor(length/3) characters; the returned password is,
\* as a multiset, one seed per enabled class, the processed keyword and the
\* padding; "ab!@12cd" with length 9 contributes "ab1".
C5_KeywordPartAndMultiset ==
    LET pk == ExpectedKeyword(args.keyword, args.length)
        rest(c) == Count(result, c) - Count(pk, c)
    IN  /\ ProcessKeyword(args.keyword, args.length) = pk
        /\ gpc = "returned" =>
              /\ \A c \in Range(pk) : Count(result, c) >= Count(pk, c)
              /\ Len(result) - Len(pk)
                   = NumEnabled(args) + Max(0, args.length - NumEnabled(args) - Len(pk))
              /\ \A c \in Range(result) :
                    rest(c) > 0 =>
                        \E n \in EnabledClasses(args) : c \in ClassChars[n]
              /\ \A n \in EnabledClasses(args) :
                    \E c \in ClassChars[n] : rest(c) > 0
        /\ ProcessKeyword(<<"a", "b", "!", "@", "1", "2", "c", "d">>, 9)
             = <<"a", "b", "1">>

C5_Witness ==
    /\ gpc = "returned"
    /\ args.keyword = <<"a", "b", "!", "@", "1", "2", "c", "d">>
    /\ args.length = 4
    /\ EnabledClasses(args) = {"numbers"}
    /\ Count(result, "a") = 1
    /\ Len(result) = 4

(***************************************************************************)
(* Properties of calculatePasswordStrength, checked under SpecScorer.      *)
(***************************************************************************)
\* The label the thresholds give a score.
LabelOf(score) ==
    CASE score \in 0..9 -> "Very Weak"
      [] score \in 10..19 -> "Weak"
      [] score \in 20..29 -> "Fair"
      [] score \in 30..39 -> "Good"
      [] OTHER -> "Strong"

\* C6: for every password, the empty one included, and every keyword the
\* report has an integer score in [0,50] and the label its score fixes:
\* below 10 Very Weak, 10..19 Weak, 20..29 Fair, 30..39 Good, from 40 Strong.
C6_ScoreBoundedAndLabelled ==
    /\ spc = "returned" =>
          /\ report.score \in 0..50
          /\ report.strength = LabelOf(report.score)
    /\ \A n \in 0..50 : StrengthLevel(n).strength = LabelOf(n)

C6_Witness ==
    /\ spc = "returned"
    /\ report.score = 10
    /\ report.strength = "Weak"

\* The rubric in the words of the specification.
RubricWindows ==
    {SubSeq(CHARACTER_SETS.lowercase, i, i + 2) : i \in 1..24}
    \cup {SubSeq(CHARACTER_SETS.numbers, i, i + 2) : i \in 1..8}

RubricHasRepeat(p) ==
    \E i \in 1..(Len(p) - 2) : p[i] = p[i + 1] /\ p[i + 1] = p[i + 2]

RubricHasWindow(p) ==
    \E i \in 1..(Len(p) - 2) : ToLowerCase(SubSeq(p, i, i + 2)) \in RubricWindows

RubricScore(p, k) ==
    LET S == 5 * Cardinality({t \in {8, 12, 16, 20} : Len(p) >= t})
             + (IF \E i \in 1..Len(p) : p[i] \in ClassChars.lowercase THEN 2 ELSE 0)
             + (IF \E i \in 1..Len(p) : p[i] \in ClassChars.uppercase THEN 2 ELSE 0)
             + (IF \E i \in 1..Len(p) : p[i] \in ClassChars.numbers THEN 2 ELSE 0)
             + (IF \E i \in 1..Len(p) : p[i] \in ClassChars.symbols THEN 3 ELSE 0)
             + (IF k # <<>> /\ Includes(ToLowerCase(p), ToLowerCase(k))
                THEN Min(3, Len(k)) ELSE 0)
             - (IF RubricHasRepeat(p) THEN 3 ELSE 0)
             - (IF RubricHasWindow(p) THEN 2 ELSE 0)
             - (IF Len(p) < 8 THEN 10 ELSE 0)
    IN  IF S < 0 THEN 0 ELSE IF S > 50 THEN 50 ELSE S

\* C7: the score is the rubric value of (password, keyword), whatever the
\* options argument: 5 per length threshold 8, 12, 16, 20 reached, +2
\* lowercase, +2 uppercase, +2 digit, +3 symbol, + min(3, keyword length) if
\* the keyword is contained, -3 if some character occurs 3 or more times in a
\* row, -2 for a three-character window of the alphabet or of the digits, -10
\* below 8 characters, clamped to [0,50].
C7_ScoreIsRubric ==
    spc = "returned" => report.score = RubricScore(sargs.password, sargs.keyword)

ExamplePassword == <<"a", "a", "a", "1", "1", "1", "1", "1", "1", "1", "1">>

\* C10 as claimed: "aaa11111111" without keyword has hasRepeats and
\* hasSequences true and score 4.
C10_ExampleScoreFour ==
    (spc = "returned" /\ sargs.password = ExamplePassword /\ sargs.keyword = <<>>) =>
        /\ report.analysis.hasRepeats
        /\ report.analysis.hasSequences
        /\ report.score = 4

\* C10 amended: "aaa11111111" without keyword gets the length>=8 bonus (+5,
\* not the >=12 one), the lowercase (+2) and digit (+2) bonuses and the
\* repeat penalty (-3); `111` is no sequential run, so hasRepeats is true,
\* hasSequences is false and the score is 6.
C10_ExampleScoreSix ==
    (spc = "returned" /\ sargs.password = ExamplePassword /\ sargs.keyword = <<>>) =>
        /\ report.analysis.length = 11
        /\ report.analysis.hasLower /\ report.analysis.hasNumber
        /\ ~report.analysis.hasUpper /\ ~report.analysis.hasSymbol
        /\ report.analysis.hasRepeats
        /\ ~report.analysis.hasSequences
        /\ report.score = 6

C10_Witness ==
    /\ spc = "returned"
    /\ sargs.password = ExamplePassword
    /\ sargs.keyword = <<>>
    /\ sargs.options.useLower
    /\ report.score = 6

\* C11: for every password and keyword the score is at most 32 (20 from the
\* length, 9 from the four classes, 3 from the keyword), so the label Strong,
\* which needs a score of 40, is never returned.
C11_ScoreAtMostThirtyTwo ==
    spc = "returned" =>
        /\ report.score <= 32
        /\ report.strength # "Strong"

C11_Witness ==
    /\ spc = "returned"
    /\ report.score = 32
    /\ report.strength = "Good"
    /\ report.analysis.length >= 20
    /\ report.analysis.hasKeyword
    /\ report.analysis.keywordLength = 3

(***************************************************************************)
(* Properties of the component and the logger, checked under SpecUI.       *)
(***************************************************************************)
\* C8: every record passed to logPasswordGeneration has only the fields uid,
\* length, options and strengthScore, every document written to passwordLogs
\* has these and createdAt: the password is no field of a logged record.
C8_NoPasswordInLoggedRecords ==
    /\ hpc = "awaitLog" =>
          DOMAIN metadata = {"uid", "length", "options", "strengthScore"}
    /\ \A i \in 1..Len(passwordLogs) :
          LET doc == passwordLogs[i]
          IN  /\ DOMAIN doc = {"uid", "length", "options", "strengthScore", "createdAt"}
              /\ doc.uid = currentUser
              /\ doc.length \in SliderMin..SliderMax
              /\ doc.options \in [DOMAIN DefaultOptions -> BOOLEAN]
              /\ doc.strengthScore \in 0..50
              /\ doc.createdAt = "serverTimestamp"

C8_Witness ==
    /\ Len(passwordLogs) = 1
    /\ "Error logging password generation:" \in consoleErrors
    /\ edits = MaxEdits
    /\ hpc = "idle"
    /\ password # <<>>
    /\ passwordLogs[1].options # DefaultOptions

\* C9: when generatePassword succeeded the new password is displayed before
\* logging is awaited; a failure of logPasswordGeneration leaves the displayed
\* password as it is, does not leave the handler, and the handler ends with
\* isGenerating false.
C9_LogFailureKeepsPassword ==
    /\ [](hpc = "awaitLog" =>
            (password = newPassword /\ newPassword # <<>> /\ isGenerating))
    /\ [][(hpc = "awaitLog" /\ hpc' = "idle" /\ passwordLogs' = passwordLogs) =>
            (/\ password' = password
             /\ password' = newPassword
             /\ ~isGenerating'
             /\ handlerPromise' = "fulfilled")]_vars

C9_Witness ==
    /\ hpc = "idle"
    /\ "Error logging password generation:" \in consoleErrors
    /\ passwordLogs = <<>>
    /\ password # <<>>
    /\ password = newPassword
    /\ ~isGenerating
    /\ handlerPromise = "fulfilled"

====
